---- MODULE Spec2Model ----
(***************************************************************************)
(* Model of the MediaPipe Holistic C bridge (src/cpp_core):                *)
(* MP_Create / MP_Process / MP_ReleaseResults / MP_GetLastError /          *)
(* MP_Destroy, the MediaPipeProcessor behind the opaque handle, the        *)
(* thread-local error record and the caller-owned MPResults record.        *)
(***************************************************************************)
EXTENDS Integers, Sequences, FiniteSets, TLC

\* ---------------------------------------------------------------- bounds
\* frames one instance may stamp (caps frame_count_)
MaxFrames == 3
\* landmarks of the longest landmark list
MaxLm == 2
\* packets the engine may have pending on all output streams of one instance
MaxPending == 1
\* arrays the heap can hold before operator new[] throws std::bad_alloc
MaxAddr == 5
\* frames each of two instances may stamp when two threads drive them
MaxThreadFrames == 1
\* frames of a long run of one instance (one more than a millisecond of ticks)
MaxTicks == 1001
\* packets in a row the engine may reject in a long run
MaxRejects == 1
\* packets the engine may have pending when calls fail and leave them queued
MaxQueue == 2

\* ------------------------------------------------------------- constants
\* timestamp.Value() / 1000
TicksPerMs == 1000
\* error codes, one per call site
ErrInvalidArguments == 1
ErrAddPacket == 2
ErrProcessing == 3
ErrConfigNull == 10
ErrCreation == 11
ErrInvalidHandle == 20

\* nullptr
NULL == 0

Threads == {"t1", "t2"}
Handles == {1, 2}
Records == {1}
Addr == 1..MaxAddr

\* the five output streams, in the order FetchResults polls them
Channel == {"face", "left_hand", "right_hand", "pose", "pose_world"}

\* landmark_size() of the lists the engine produces: none, one, the longest
ListSizes == {0, 1, MaxLm}

\* the payload of one packet of an output stream: a landmark list of n entries
Packet == [n : ListSizes]

\* the packet as the graph queues it: the payload At(ts), ts the timestamp of
\* the input frame it was computed from
Stamped(pkt, ts) == [n |-> pkt.n, ts |-> ts]

\* where a std::exception is raised inside Process' try block
FaultSites == {<<"none", "-">>, <<"wrap", "-">>, <<"packet", "-">>}
              \cup ({"poll", "alloc"} \X Channel)

VARIABLES
    live,           \* handles of the processors that exist
    frame_count_,   \* [Handles -> Nat]: MediaPipeProcessor::frame_count_
    input_video,    \* [Handles -> Int]: timestamp of the last packet the input
                    \* stream accepted, -1 before the first
    out,            \* [Handles -> [Channel -> Seq(Packet)]]: output stream queues
    graph,          \* [Handles -> "none" | "running" | "drained" | "abandoned"]
    g_last_error,   \* [Threads -> Int]: thread-local MPError.code
    rec,            \* [Records -> MPResults]: the caller's result records
    heap,           \* addresses of the MPLandmark arrays currently allocated
    badFree,        \* a delete[] hit an address that was not allocated
    held,           \* [Records -> "empty" | "ok" | "fail" | "rereleased"]: what the
                    \* caller last saw happen to the record: zero-initialised or
                    \* released, filled by a successful / a failed MP_Process,
                    \* released again while already empty
    last,           \* the last MP_Create / MP_Process call and what it returned
    stamp           \* [Threads -> [h, r, pc, ts]]: Process' local timestamp, for a
                    \* thread that runs Process step by step: the instance h and
                    \* the record r of its calls, pc = "loaded" between the load
                    \* and the store of frame_count_++, ts the values it loaded,
                    \* in order

vars == <<live, frame_count_, input_video, out, graph, g_last_error, rec, heap,
          badFree, held, last, stamp>>

\* an MPResults of all-zero bytes
ZeroResults ==
    [landmarks |-> [c \in Channel |-> NULL],
     count |-> [c \in Channel |-> 0],
     timestamp_ms |-> 0,
     processing_time_ms |-> "0",
     face_detected |-> FALSE,
     hands_detected |-> FALSE,
     pose_detected |-> FALSE]

\* mutant: the record is not cleared
Memset_Skipped(res) == res

\* memset(results, 0, sizeof(MPResults)) on a record holding res
Memset(res) == ZeroResults

\* mutant: the increment is lost
NextFrameCount_Lost(fc) == fc

\* frame_count_++
NextFrameCount(fc) == fc + 1

\* mutant: the counter value is reported undivided
TimestampMs_Ticks(timestamp) == timestamp

\* results->timestamp_ms = timestamp.Value() / 1000
TimestampMs(timestamp) == timestamp \div TicksPerMs

\* mutant: one error record for the whole process
SetError_Shared(t, code) == [u \in Threads |-> code]

\* thread_local MPError g_last_error = {0, ""}
SetError(t, code) == [g_last_error EXCEPT ![t] = code]

\* mutant: the code of an earlier failure is left in place
ClearError_Forgotten(t) == g_last_error

ClearError(t) == [g_last_error EXCEPT ![t] = 0]

\* operator new[]: the lowest free address, NULL when none is left
NewArray(h) ==
    IF Addr \ h = {} THEN NULL
    ELSE CHOOSE a \in Addr \ h : \A b \in Addr \ h : a <= b

\* ConvertLandmarks(list, &count): *out_count is written first, then the
\* array is allocated; `fails` is new[] throwing std::bad_alloc
ConvertLandmarks(n, h, fails) ==
    IF n = 0 THEN [count |-> 0, ptr |-> NULL, heap |-> h, threw |-> FALSE]
    ELSE IF fails \/ NewArray(h) = NULL
         THEN [count |-> n, ptr |-> NULL, heap |-> h, threw |-> TRUE]
         ELSE [count |-> n, ptr |-> NewArray(h),
               heap |-> h \cup {NewArray(h)}, threw |-> FALSE]

\* ConvertWorldLandmarks: the same steps on a LandmarkList
ConvertWorldLandmarks(n, h, fails) ==
    IF n = 0 THEN [count |-> 0, ptr |-> NULL, heap |-> h, threw |-> FALSE]
    ELSE IF fails \/ NewArray(h) = NULL
         THEN [count |-> n, ptr |-> NULL, heap |-> h, threw |-> TRUE]
         ELSE [count |-> n, ptr |-> NewArray(h),
               heap |-> h \cup {NewArray(h)}, threw |-> FALSE]

\* mutant: the world-pose block sets pose_detected as the pose block does
SetFlag_WorldGatesPose(c, res, count) ==
    CASE c = "face" -> [res EXCEPT !.face_detected = (count > 0)]
      [] c \in {"left_hand", "right_hand"} -> [res EXCEPT !.hands_detected = TRUE]
      [] c \in {"pose", "pose_world"} -> [res EXCEPT !.pose_detected = (count > 0)]
      [] OTHER -> res

\* the detection flag a channel sets once its conversion has returned
SetFlag(c, res, count) ==
    CASE c = "face" -> [res EXCEPT !.face_detected = (count > 0)]
      [] c \in {"left_hand", "right_hand"} -> [res EXCEPT !.hands_detected = TRUE]
      [] c = "pose" -> [res EXCEPT !.pose_detected = (count > 0)]
      [] OTHER -> res

\* mutant: the head packet is copied but stays in the queue
FetchChannel_Peek(c, st, fault) ==
    IF st.threw THEN st
    ELSE IF fault = <<"poll", c>> THEN [st EXCEPT !.threw = TRUE]
    ELSE IF st.q[c] = <<>> THEN st
    ELSE LET pkt == Head(st.q[c])
             cv == IF c = "pose_world"
                   THEN ConvertWorldLandmarks(pkt.n, st.heap, fault = <<"alloc", c>>)
                   ELSE ConvertLandmarks(pkt.n, st.heap, fault = <<"alloc", c>>)
         IN IF cv.threw
            THEN [res |-> [st.res EXCEPT !.count[c] = cv.count],
                  heap |-> cv.heap, q |-> st.q, threw |-> TRUE]
            ELSE [res |-> SetFlag(c, [st.res EXCEPT !.landmarks[c] = cv.ptr,
                                                    !.count[c] = cv.count],
                                  cv.count),
                  heap |-> cv.heap, q |-> st.q, threw |-> FALSE]

\* one `if (GetOutputStream(c)->GetPacket(&p)) { ... }` block of FetchResults.
\* st = [res, heap, q, threw]: the record, the heap, the instance's queues,
\* and whether an exception is propagating.
FetchChannel(c, st, fault) ==
    IF st.threw THEN st
    ELSE IF fault = <<"poll", c>> THEN [st EXCEPT !.threw = TRUE]
    ELSE IF st.q[c] = <<>> THEN st
    ELSE LET pkt == Head(st.q[c])
             cv == IF c = "pose_world"
                   THEN ConvertWorldLandmarks(pkt.n, st.heap, fault = <<"alloc", c>>)
                   ELSE ConvertLandmarks(pkt.n, st.heap, fault = <<"alloc", c>>)
             q1 == [st.q EXCEPT ![c] = Tail(@)]
         IN IF cv.threw
            THEN [res |-> [st.res EXCEPT !.count[c] = cv.count],
                  heap |-> cv.heap, q |-> q1, threw |-> TRUE]
            ELSE [res |-> SetFlag(c, [st.res EXCEPT !.landmarks[c] = cv.ptr,
                                                    !.count[c] = cv.count],
                                  cv.count),
                  heap |-> cv.heap, q |-> q1, threw |-> FALSE]

\* mutant: the world-pose stream is polled only when the pose stream had a
\* packet
FetchResults_WorldNeedsPose(st, fault) ==
    LET s4 == FetchChannel("pose",
                FetchChannel("right_hand",
                  FetchChannel("left_hand",
                    FetchChannel("face", st, fault), fault), fault), fault)
    IN IF st.q["pose"] = <<>> THEN s4 ELSE FetchChannel("pose_world", s4, fault)

\* mutant: when an exception propagates, the packets of the streams not yet
\* polled are dropped
FetchResults_DropsRest(st, fault) ==
    LET s == FetchChannel("pose_world",
               FetchChannel("pose",
                 FetchChannel("right_hand",
                   FetchChannel("left_hand",
                     FetchChannel("face", st, fault), fault), fault), fault), fault)
    IN IF s.threw
       THEN [s EXCEPT !.q = [c \in Channel |->
                                IF s.q[c] = <<>> THEN <<>> ELSE Tail(s.q[c])]]
       ELSE s

\* mutant: only the face stream is polled
FetchResults_FaceOnly(st, fault) == FetchChannel("face", st, fault)

\* MediaPipeProcessor::FetchResults
FetchResults(st, fault) ==
    FetchChannel("pose_world",
      FetchChannel("pose",
        FetchChannel("right_hand",
          FetchChannel("left_hand",
            FetchChannel("face", st, fault), fault), fault), fault), fault)

Init ==
    /\ live = {}
    /\ frame_count_ = [h \in Handles |-> 0]
    /\ input_video = [h \in Handles |-> -1]
    /\ out = [h \in Handles |-> [c \in Channel |-> <<>>]]
    /\ graph = [h \in Handles |-> "none"]
    /\ g_last_error = [t \in Threads |-> 0]
    /\ rec = [r \in Records |-> ZeroResults]
    /\ heap = {}
    /\ badFree = FALSE
    /\ held = [r \in Records |-> "empty"]
    /\ last = [op |-> "none", t |-> "t1", ret |-> 0]
    /\ stamp = [t \in Threads |-> [h |-> NULL, r |-> NULL, pc |-> "out", ts |-> <<>>]]

\* ------------------------------------------------------------ the engine
Pending(h) ==
    Len(out[h]["face"]) + Len(out[h]["left_hand"]) + Len(out[h]["right_hand"])
    + Len(out[h]["pose"]) + Len(out[h]["pose_world"])

\* the running graph queues on stream c the packet pkt it computed from the
\* frame it accepted last; the timestamps on one stream increase
GraphEmit(h, c, pkt) ==
    /\ h \in live
    /\ graph[h] = "running"
    /\ input_video[h] >= 0
    /\ \A i \in DOMAIN out[h][c] : out[h][c][i].ts < input_video[h]
    /\ out' = [out EXCEPT ![h][c] = Append(@, Stamped(pkt, input_video[h]))]
    /\ UNCHANGED <<live, frame_count_, input_video, graph, g_last_error, rec, heap,
                   badFree, held, last, stamp>>

\* ---------------------------------------------------------------- C API
\* MediaPipeProcessor::MediaPipeProcessor: the step that throws, or "none"
CtorStages == {"none", "parse", "init", "start"}

\* MP_Create; h is the address operator new returns (never one used before)
MP_Create(t, configOk, h, stage) ==
    /\ h \notin live
    /\ graph[h] = "none"
    /\ IF ~configOk
       THEN /\ g_last_error' = SetError(t, ErrConfigNull)
            /\ last' = [op |-> "MP_Create", t |-> t, ret |-> NULL]
            /\ UNCHANGED <<live, frame_count_, input_video, out, graph>>
       ELSE IF stage # "none"
       THEN /\ g_last_error' = SetError(t, ErrCreation)
            /\ last' = [op |-> "MP_Create", t |-> t, ret |-> NULL]
            /\ UNCHANGED <<live, frame_count_, input_video, out, graph>>
       ELSE /\ live' = live \cup {h}
            /\ frame_count_' = [frame_count_ EXCEPT ![h] = 0]
            /\ input_video' = [input_video EXCEPT ![h] = -1]
            /\ out' = [out EXCEPT ![h] = [c \in Channel |-> <<>>]]
            /\ graph' = [graph EXCEPT ![h] = "running"]
            /\ g_last_error' = ClearError(t)
            /\ last' = [op |-> "MP_Create", t |-> t, ret |-> h]
    /\ UNCHANGED <<rec, heap, badFree, held, stamp>>

\* MP_Destroy / ~MediaPipeProcessor: closeOk is CloseAllInputStreams().ok()
MP_Destroy(t, handle, closeOk) ==
    /\ handle = NULL \/ handle \in live
    /\ IF handle = NULL
       THEN UNCHANGED <<live, frame_count_, input_video, out, graph>>
       ELSE /\ live' = live \ {handle}
            /\ graph' = [graph EXCEPT ![handle] =
                             IF closeOk THEN "drained" ELSE "abandoned"]
            /\ frame_count_' = [frame_count_ EXCEPT ![handle] = 0]
            /\ input_video' = [input_video EXCEPT ![handle] = -1]
            /\ out' = [out EXCEPT ![handle] = [c \in Channel |-> <<>>]]
    /\ UNCHANGED <<g_last_error, rec, heap, badFree, held, last, stamp>>

\* MP_GetLastError: a copy of the calling thread's record; handle is unused
MP_GetLastError(t, handle) == g_last_error[t]

\* mutant: frame_count_ is one counter shared by every instance
StoreCount_Static(h, v) == [g \in Handles |-> v]

\* the store of frame_count_++: instance h's member takes the value v
StoreCount(h, v) == [frame_count_ EXCEPT ![h] = v]

\* MediaPipeProcessor::Process. pixelsOk: pixels != nullptr; r: the results
\* pointer; accept: AddPacketToInputStream(...).ok(); fault: where an
\* exception is raised; timestamp: the value frame_count_++ loaded.
ProcessAt(t, h, pixelsOk, r, accept, fault, timestamp) ==
    IF ~pixelsOk \/ r = NULL
    THEN /\ g_last_error' = SetError(t, ErrInvalidArguments)
         /\ UNCHANGED <<frame_count_, input_video, out, rec, heap, held>>
         /\ last' = [op |-> "MP_Process", t |-> t, ret |-> 0]
    ELSE LET cleared == Memset(rec[r])
             st == FetchResults([res |-> cleared, heap |-> heap,
                                 q |-> out[h], threw |-> FALSE], fault)
             ok == fault[1] \notin {"wrap", "packet"} /\ accept /\ ~st.threw
         IN /\ IF fault[1] = "wrap"
               THEN /\ rec' = [rec EXCEPT ![r] = cleared]
                    /\ g_last_error' = SetError(t, ErrProcessing)
                    /\ UNCHANGED <<frame_count_, input_video, out, heap>>
               ELSE /\ frame_count_' = StoreCount(h, NextFrameCount(timestamp))
                    /\ IF fault[1] = "packet"
                       THEN /\ rec' = [rec EXCEPT ![r] = cleared]
                            /\ g_last_error' = SetError(t, ErrProcessing)
                            /\ UNCHANGED <<input_video, out, heap>>
                       ELSE IF ~accept
                       THEN /\ rec' = [rec EXCEPT ![r] = cleared]
                            /\ g_last_error' = SetError(t, ErrAddPacket)
                            /\ UNCHANGED <<input_video, out, heap>>
                       ELSE /\ input_video' = [input_video EXCEPT ![h] = timestamp]
                            /\ out' = [out EXCEPT ![h] = st.q]
                            /\ heap' = st.heap
                            /\ IF st.threw
                               THEN /\ rec' = [rec EXCEPT ![r] = st.res]
                                    /\ g_last_error' = SetError(t, ErrProcessing)
                               ELSE /\ rec' = [rec EXCEPT ![r] =
                                          [st.res EXCEPT
                                             !.processing_time_ms = "elapsed",
                                             !.timestamp_ms = TimestampMs(timestamp)]]
                                    /\ g_last_error' = ClearError(t)
            /\ held' = [held EXCEPT ![r] = IF ok THEN "ok" ELSE "fail"]
            /\ last' = [op |-> "MP_Process", t |-> t, ret |-> IF ok THEN 1 ELSE 0]

\* Process as one thread runs it: load and store of frame_count_++ together
Process(t, h, pixelsOk, r, accept, fault) ==
    ProcessAt(t, h, pixelsOk, r, accept, fault, frame_count_[h])

\* mutant: the record is cleared before the handle is looked at
MP_Process_ClearsFirst(t, handle, pixelsOk, r, accept, fault) ==
    /\ handle = NULL \/ handle \in live
    /\ IF handle = NULL
       THEN /\ g_last_error' = SetError(t, ErrInvalidHandle)
            /\ last' = [op |-> "MP_Process", t |-> t, ret |-> 0]
            /\ rec' = IF r = NULL THEN rec ELSE [rec EXCEPT ![r] = Memset(@)]
            /\ UNCHANGED <<frame_count_, input_video, out, heap, held>>
       ELSE Process(t, handle, pixelsOk, r, accept, fault)
    /\ UNCHANGED <<live, graph, badFree, stamp>>

MP_Process(t, handle, pixelsOk, r, accept, fault) ==
    /\ handle = NULL \/ handle \in live
    /\ IF handle = NULL
       THEN /\ g_last_error' = SetError(t, ErrInvalidHandle)
            /\ last' = [op |-> "MP_Process", t |-> t, ret |-> 0]
            /\ UNCHANGED <<frame_count_, input_video, out, rec, heap, held>>
       ELSE Process(t, handle, pixelsOk, r, accept, fault)
    /\ UNCHANGED <<live, graph, badFree, stamp>>

\* delete[] p on the heap hp = [heap, bad]
DeleteArray(p, hp) ==
    IF p = NULL THEN hp
    ELSE IF p \in hp.heap THEN [hp EXCEPT !.heap = @ \ {p}]
    ELSE [hp EXCEPT !.bad = TRUE]

\* mutant: the world-pose array is not freed
DeleteAll_WorldForgotten(res, hp) ==
    DeleteArray(res.landmarks["pose"],
      DeleteArray(res.landmarks["right_hand"],
        DeleteArray(res.landmarks["left_hand"],
          DeleteArray(res.landmarks["face"], hp))))

\* the five delete[] of MP_ReleaseResults, in source order
DeleteAll(res, hp) ==
    DeleteArray(res.landmarks["pose_world"],
      DeleteArray(res.landmarks["pose"],
        DeleteArray(res.landmarks["right_hand"],
          DeleteArray(res.landmarks["left_hand"],
            DeleteArray(res.landmarks["face"], hp)))))

MP_ReleaseResults(t, r) ==
    /\ IF r = NULL
       THEN UNCHANGED <<rec, heap, badFree, held>>
       ELSE LET hp == DeleteAll(rec[r], [heap |-> heap, bad |-> badFree])
            IN /\ heap' = hp.heap
               /\ badFree' = hp.bad
               /\ rec' = [rec EXCEPT ![r] = Memset(@)]
               /\ held' = [held EXCEPT ![r] = IF @ \in {"ok", "fail"}
                                               THEN "empty" ELSE "rereleased"]
    /\ UNCHANGED <<live, frame_count_, input_video, out, graph, g_last_error, last,
                   stamp>>

\* ------------------------------------------------- one caller, one instance
MainThread == "t1"
MainHandle == CHOOSE h \in Handles : \A g \in Handles : h <= g

\* the argument combinations of one MP_Process call; an argument the call
\* does not get to read is held at one value
ProcessArgs ==
    {a \in [handle : {NULL, MainHandle}, pixelsOk : BOOLEAN,
            r : Records \cup {NULL}, accept : BOOLEAN, fault : FaultSites] :
        /\ (a.handle = NULL \/ ~a.pixelsOk \/ a.r = NULL)
              => (a.accept /\ a.fault[1] = "none")
        /\ a.handle = NULL => a.pixelsOk
        /\ a.fault[1] # "none" => a.accept}

Create ==
    \E configOk \in BOOLEAN, stage \in CtorStages :
        /\ ~configOk => stage = "none"
        /\ MP_Create(MainThread, configOk, MainHandle, stage)

\* the caller stops after MaxFrames frames
Bounded(a) == a.handle # NULL => frame_count_[a.handle] < MaxFrames

Submit ==
    \E a \in ProcessArgs :
        /\ Bounded(a)
        /\ MP_Process(MainThread, a.handle, a.pixelsOk, a.r, a.accept, a.fault)

Release ==
    \E r \in Records \cup {NULL} : MP_ReleaseResults(MainThread, r)

Destroy ==
    \E handle \in {NULL, MainHandle}, closeOk \in BOOLEAN :
        /\ handle = NULL => closeOk
        /\ MP_Destroy(MainThread, handle, closeOk)

\* the engine runs beside the caller
Emit ==
    \E c \in Channel, pkt \in Packet :
        /\ Pending(MainHandle) < MaxPending
        /\ GraphEmit(MainHandle, c, pkt)

Next == Create \/ Submit \/ Release \/ Destroy \/ Emit

Spec == Init /\ [][Next]_vars

\* --------------------------------- every combination of the five channels
\* the caller's last call succeeded and it has released what it was given
Idle ==
    /\ heap = {}
    /\ g_last_error[MainThread] = 0
    /\ \A r \in Records : rec[r] = ZeroResults /\ held[r] = "empty"

\* between a release and the next call the engine queues one packet on any
\* stream that holds none
EmitIdle ==
    \E c \in Channel, pkt \in Packet :
        /\ Idle
        /\ out[MainHandle][c] = <<>>
        /\ GraphEmit(MainHandle, c, pkt)

\* calls that pass argument validation
SubmitValid ==
    \E a \in ProcessArgs :
        /\ a.handle # NULL /\ a.pixelsOk /\ a.r # NULL
        /\ Bounded(a)
        /\ MP_Process(MainThread, a.handle, a.pixelsOk, a.r, a.accept, a.fault)

CreateOk == MP_Create(MainThread, TRUE, MainHandle, "none")

NextFetch == CreateOk \/ SubmitValid \/ Release \/ EmitIdle

SpecFetch == Init /\ [][NextFetch]_vars

\* ------------------- a caller that keeps the ownership contract of the header
\* MP_Process never overwrites a record that still holds an unreleased
\* successful result
SubmitOwned ==
    \E a \in ProcessArgs :
        /\ (a.handle # NULL /\ a.pixelsOk /\ a.r # NULL) => held[a.r] # "ok"
        /\ Bounded(a)
        /\ MP_Process(MainThread, a.handle, a.pixelsOk, a.r, a.accept, a.fault)

\* MP_ReleaseResults exactly once per successful MP_Process, never otherwise
ReleaseOwned ==
    \E r \in Records :
        /\ held[r] = "ok"
        /\ MP_ReleaseResults(MainThread, r)

NextOwned == Create \/ SubmitOwned \/ ReleaseOwned \/ Destroy \/ EmitIdle

SpecOwned == Init /\ [][NextOwned]_vars

\* ------------------------------------- two threads, two processor instances
\* the argument combinations of an MP_Process call on instance h; no packet
\* is ever pending here, so an exception while polling or converting is left
\* out
ArgsOn(h) ==
    {[a EXCEPT !.handle = h] :
        a \in {b \in ProcessArgs :
                  b.handle # NULL /\ b.fault[1] \in {"none", "wrap", "packet"}}}
    \cup {b \in ProcessArgs : b.handle = NULL}

ThreadCreate ==
    \E t \in Threads, h \in Handles, configOk \in BOOLEAN, stage \in CtorStages :
        /\ ~configOk => stage = "none"
        /\ MP_Create(t, configOk, h, stage)

ThreadSubmit ==
    \E t \in Threads, h \in Handles :
        \E a \in ArgsOn(h) :
            /\ a.handle # NULL => frame_count_[h] < MaxThreadFrames
            /\ MP_Process(t, a.handle, a.pixelsOk, a.r, a.accept, a.fault)

ThreadRelease ==
    \E t \in Threads, r \in Records : MP_ReleaseResults(t, r)

ThreadDestroy ==
    \E t \in Threads, h \in Handles, closeOk \in BOOLEAN : MP_Destroy(t, h, closeOk)

NextThreads == ThreadCreate \/ ThreadSubmit \/ ThreadRelease \/ ThreadDestroy

SpecThreads == Init /\ [][NextThreads]_vars


\* ------------------------------------------------- a long run of one instance
\* frame after frame with valid arguments and no exception; the engine accepts
\* the packet or rejects it
SubmitTick ==
    \E r \in Records, accept \in BOOLEAN :
        /\ frame_count_[MainHandle] < MaxTicks
        /\ ~accept => frame_count_[MainHandle] - input_video[MainHandle] <= MaxRejects
        /\ MP_Process(MainThread, MainHandle, TRUE, r, accept, <<"none", "-">>)

NextTicks == CreateOk \/ SubmitTick

SpecTicks == Init /\ [][NextTicks]_vars


\* ------------------------------------------------ MP_Destroy, step by step
\* mutant: the destructor waits for the graph whatever CloseAllInputStreams
\* returned
DestroyClose_AlwaysWaits(t, handle, closeOk) ==
    /\ handle \in live
    /\ graph[handle] = "running"
    /\ graph' = [graph EXCEPT ![handle] = "closed"]
    /\ UNCHANGED <<live, frame_count_, input_video, out, g_last_error, rec, heap,
                   badFree, held, last, stamp>>

\* MP_Destroy on a live handle, up to the destructor's if (status.ok()):
\* CloseAllInputStreams has returned; when it succeeded the thread goes on to
\* WaitUntilDone, when it failed the destructor is over and the processor gone
DestroyClose(t, handle, closeOk) ==
    /\ handle \in live
    /\ graph[handle] = "running"
    /\ IF closeOk
       THEN /\ graph' = [graph EXCEPT ![handle] = "closed"]
            /\ UNCHANGED <<live, frame_count_, input_video, out>>
       ELSE /\ graph' = [graph EXCEPT ![handle] = "abandoned"]
            /\ live' = live \ {handle}
            /\ frame_count_' = [frame_count_ EXCEPT ![handle] = 0]
            /\ input_video' = [input_video EXCEPT ![handle] = -1]
            /\ out' = [out EXCEPT ![handle] = [c \in Channel |-> <<>>]]
    /\ UNCHANGED <<g_last_error, rec, heap, badFree, held, last, stamp>>

\* the graph, its inputs closed, finishes the work in flight
GraphDrain(h) ==
    /\ graph[h] = "closed"
    /\ graph' = [graph EXCEPT ![h] = "done"]
    /\ UNCHANGED <<live, frame_count_, input_video, out, g_last_error, rec, heap,
                   badFree, held, last, stamp>>

\* WaitUntilDone returns, the destructor ends and delete frees the processor
DestroyReturn(t, handle) ==
    /\ handle \in live
    /\ graph[handle] = "done"
    /\ graph' = [graph EXCEPT ![handle] = "drained"]
    /\ live' = live \ {handle}
    /\ frame_count_' = [frame_count_ EXCEPT ![handle] = 0]
    /\ input_video' = [input_video EXCEPT ![handle] = -1]
    /\ out' = [out EXCEPT ![handle] = [c \in Channel |-> <<>>]]
    /\ UNCHANGED <<g_last_error, rec, heap, badFree, held, last, stamp>>

\* the caller is not inside MP_Destroy
Returned == \A h \in Handles : graph[h] \notin {"closed", "done"}

CallCreate == Returned /\ Create

CallSubmit == Returned /\ Submit

CallRelease == Returned /\ Release

EngineEmit == Returned /\ Emit

CallDestroy ==
    \E closeOk \in BOOLEAN : DestroyClose(MainThread, MainHandle, closeOk)

CallDestroyNull == Returned /\ MP_Destroy(MainThread, NULL, TRUE)

Drain == GraphDrain(MainHandle)

Return == DestroyReturn(MainThread, MainHandle)

NextDestroy ==
    CallCreate \/ CallSubmit \/ CallRelease \/ EngineEmit \/ CallDestroy
    \/ CallDestroyNull \/ Drain \/ Return

\* the graph drains once its inputs are closed, and the thread waiting in
\* WaitUntilDone goes on once it has
SpecDestroy ==
    Init /\ [][NextDestroy]_vars /\ WF_vars(Drain) /\ WF_vars(Return)

\* --------------------------------------------- packets left queued by a call
\* while the caller holds no array the engine queues a packet; a call that
\* failed before it polled a stream has left that stream's packets queued
EmitQueued ==
    \E c \in Channel, pkt \in Packet :
        /\ heap = {}
        /\ Pending(MainHandle) < MaxQueue
        /\ GraphEmit(MainHandle, c, pkt)

NextQueue == CreateOk \/ SubmitValid \/ Release \/ EmitQueued

SpecQueue == Init /\ [][NextQueue]_vars

\* ------------------------------- two threads inside Process at the same time
\* frame_count_ is a plain int64_t and Process takes no lock: frame_count_++ is
\* a load and a later store, and another thread's load or store may fall in
\* between.
\* MP_Process(handle = h, valid pixels, results = r) by thread t, up to the
\* load of frame_count_: the record is cleared, the frame wrapped, the counter
\* read into the thread's timestamp
ProcessLoad(t, h, r) ==
    /\ h \in live
    /\ stamp[t].pc = "out"
    /\ rec' = [rec EXCEPT ![r] = Memset(@)]
    /\ stamp' = [stamp EXCEPT ![t] = [h |-> h, r |-> r, pc |-> "loaded",
                                      ts |-> Append(@.ts, frame_count_[h])]]
    /\ UNCHANGED <<live, frame_count_, input_video, out, graph, g_last_error, heap,
                   badFree, held, last>>

\* the rest of that call: the store of the loaded value plus one, then the
\* packet At(timestamp), AddPacketToInputStream, FetchResults and the return
ProcessStore(t, accept, fault) ==
    /\ stamp[t].pc = "loaded"
    /\ stamp[t].h \in live
    /\ ProcessAt(t, stamp[t].h, TRUE, stamp[t].r, accept, fault,
                 stamp[t].ts[Len(stamp[t].ts)])
    /\ stamp' = [stamp EXCEPT ![t].pc = "out"]
    /\ UNCHANGED <<live, graph, badFree>>

RaceCreate ==
    \E t \in Threads, h \in Handles : MP_Create(t, TRUE, h, "none")

\* a thread stays with the instance of its first call: the two threads drive
\* one instance each, or both the same one
RaceLoad ==
    \E t \in Threads, h \in Handles, r \in Records :
        /\ stamp[t].h \in {NULL, h}
        /\ frame_count_[h] < MaxFrames
        /\ ProcessLoad(t, h, r)

RaceStore ==
    \E t \in Threads, accept \in BOOLEAN : ProcessStore(t, accept, <<"none", "-">>)

NextRace == RaceCreate \/ RaceLoad \/ RaceStore

SpecRace == Init /\ [][NextRace]_vars

\* =================================================================== claims
\* how far an MP_Process call with arguments a gets
PassesValidation(a) == a.handle # NULL /\ a.pixelsOk /\ a.r # NULL

ReachesTimestamp(a) == PassesValidation(a) /\ a.fault[1] # "wrap"

Rejected(a) == ReachesTimestamp(a) /\ a.fault[1] # "packet" /\ ~a.accept

Accepted(a) == ReachesTimestamp(a) /\ a.fault[1] # "packet" /\ a.accept

Call(t, a) == MP_Process(t, a.handle, a.pixelsOk, a.r, a.accept, a.fault)

\* C1: the frame counter of an instance starts at 0, is never reset or
\* decremented while the instance lives, advances by exactly 1 in every
\* MP_Process call that reaches the timestamp assignment (also when the call
\* then fails) and not at all in a call rejected for a null handle, null
\* pixels or null results; every timestamp the input stream accepts is larger
\* than the one it accepted before.
C1_FrameCounter ==
    /\ [](\A h \in live : input_video[h] < frame_count_[h])
    /\ [][/\ \A h \in Handles :
               /\ (h \notin live /\ h \in live') => frame_count_'[h] = 0
               /\ (h \in live /\ h \in live') => frame_count_'[h] >= frame_count_[h]
          /\ \A t \in Threads, a \in ProcessArgs :
               Call(t, a) =>
                 /\ a.handle = NULL => frame_count_' = frame_count_
                 /\ (a.handle # NULL /\ ~ReachesTimestamp(a))
                       => frame_count_' = frame_count_
                 /\ ReachesTimestamp(a)
                       => frame_count_'[a.handle] = frame_count_[a.handle] + 1
                 /\ Accepted(a)
                       => /\ input_video'[a.handle] = frame_count_[a.handle]
                          /\ input_video'[a.handle] > input_video[a.handle]
                 /\ ~Accepted(a) => input_video' = input_video]_vars

\* C1 witness: frame 0 was accepted, frame 1 was rejected by the engine and
\* the counter stands at 2
C1_Witness ==
    /\ MainHandle \in live
    /\ g_last_error[MainThread] = ErrAddPacket
    /\ input_video[MainHandle] = 0
    /\ frame_count_[MainHandle] = 2

\* C2 (as claimed): of two successful MP_Process calls in a row the second
\* reports a larger timestamp_ms than the first
C2_StrictlyIncreasing ==
    [][\A r \in Records, h \in Handles :
          (/\ held[r] = "ok" /\ held'[r] = "ok"
           /\ h \in live /\ frame_count_'[h] = frame_count_[h] + 1)
             => rec'[r].timestamp_ms > rec[r].timestamp_ms]_vars

\* C3 (as claimed): in a record a successful MP_Process returned,
\* hands_detected is true exactly when a hand channel holds a landmark
C3_HandsFlag ==
    \A r \in Records :
        held[r] = "ok" =>
            (rec[r].hands_detected <=>
                (rec[r].count["left_hand"] >= 1 \/ rec[r].count["right_hand"] >= 1))

\* C4: in a record a successful MP_Process returned, face_detected is true
\* exactly when face_count >= 1 and pose_detected exactly when
\* pose_count >= 1, whatever the world-pose channel holds
C4_FaceAndPoseFlags ==
    \A r \in Records :
        held[r] = "ok" =>
            /\ rec[r].face_detected <=> rec[r].count["face"] >= 1
            /\ rec[r].pose_detected <=> rec[r].count["pose"] >= 1

\* C4 witness: world-pose landmarks without pose landmarks, beside a face
C4_Witness ==
    \E r \in Records :
        /\ held[r] = "ok"
        /\ rec[r].count["pose_world"] > 0
        /\ rec[r].count["pose"] = 0
        /\ ~rec[r].pose_detected
        /\ rec[r].face_detected

\* C5: a successful MP_Process leaves the error code 0 and fills every
\* channel from that channel's own queue alone: a channel with no packet
\* pending stays null with count 0, a channel with a packet pending takes the
\* packet, its count is the packet's number of landmarks and its array is
\* non-null exactly when that number is positive; a call that finds no packet
\* at all succeeds
C5_ChannelIndependence ==
    [][\A t \in Threads, a \in ProcessArgs :
          /\ (last'.ret = 1 /\ Call(t, a)) =>
                /\ g_last_error'[t] = 0
                /\ \A c \in Channel :
                     IF out[a.handle][c] = <<>>
                     THEN /\ rec'[a.r].landmarks[c] = NULL
                          /\ rec'[a.r].count[c] = 0
                          /\ out'[a.handle][c] = <<>>
                     ELSE /\ rec'[a.r].count[c] = Head(out[a.handle][c]).n
                          /\ rec'[a.r].landmarks[c] # NULL
                               <=> Head(out[a.handle][c]).n >= 1
                          /\ out'[a.handle][c] = Tail(out[a.handle][c])
          /\ (/\ Accepted(a) /\ a.fault[1] = "none"
              /\ \A c \in Channel : out[a.handle][c] = <<>>
              /\ Call(t, a))
                => last'.ret = 1]_vars

\* C5 witness: face, right hand and world pose present; left hand and pose
\* absent
C5_Witness ==
    \E r \in Records :
        /\ held[r] = "ok"
        /\ g_last_error[MainThread] = 0
        /\ rec[r].landmarks["face"] # NULL /\ rec[r].count["face"] = MaxLm
        /\ rec[r].landmarks["left_hand"] = NULL /\ rec[r].count["left_hand"] = 0
        /\ rec[r].landmarks["right_hand"] # NULL /\ rec[r].count["right_hand"] = 1
        /\ rec[r].landmarks["pose"] = NULL /\ rec[r].count["pose"] = 0
        /\ rec[r].landmarks["pose_world"] # NULL

\* C6 (as claimed): in every record, a channel's array is null exactly when
\* its count is 0
C6_NullIffZero ==
    \A r \in Records : \A c \in Channel :
        rec[r].landmarks[c] = NULL <=> rec[r].count[c] = 0

\* C7: MP_Process with a null handle returns false, changes no field of the
\* caller's record and no frame counter (nor a queue, nor the heap), and
\* leaves a code other than 0 for MP_GetLastError on the calling thread
C7_NullHandle ==
    [][\A t \in Threads, a \in ProcessArgs :
          (a.handle = NULL /\ Call(t, a)) =>
              /\ last'.op = "MP_Process" /\ last'.ret = 0
              /\ rec' = rec
              /\ frame_count_' = frame_count_
              /\ input_video' = input_video
              /\ out' = out
              /\ heap' = heap
              /\ MP_GetLastError(t, NULL)' # 0]_vars

\* C7 witness: the call was made on a record that holds a result
C7_Witness ==
    \E r \in Records, c \in Channel :
        /\ g_last_error[MainThread] = ErrInvalidHandle
        /\ last.ret = 0
        /\ held[r] = "ok"
        /\ rec[r].landmarks[c] # NULL

\* C8: when the engine rejects the packet, MP_Process returns false with a
\* code other than 0, takes no packet from any output stream, allocates
\* nothing, leaves the record all zero whatever it held, and the frame
\* counter stays one higher than before the call
C8_SubmitError ==
    [][\A t \in Threads, a \in ProcessArgs :
          (Rejected(a) /\ Call(t, a)) =>
              /\ last'.op = "MP_Process" /\ last'.ret = 0
              /\ g_last_error'[t] = ErrAddPacket
              /\ g_last_error'[t] # 0
              /\ out' = out
              /\ heap' = heap
              /\ input_video' = input_video
              /\ rec'[a.r] = ZeroResults
              /\ frame_count_'[a.handle] = frame_count_[a.handle] + 1]_vars

\* C8 witness: a packet was pending and the record held an array when the
\* rejected call was made
C8_Witness ==
    \E r \in Records :
        /\ g_last_error[MainThread] = ErrAddPacket
        /\ last.ret = 0
        /\ held[r] = "fail"
        /\ rec[r] = ZeroResults
        /\ Pending(MainHandle) > 0
        /\ heap # {}

\* the arrays a record points to
Arrays(res) == {res.landmarks[c] : c \in Channel} \ {NULL}

\* C9: MP_ReleaseResults frees exactly the non-null arrays of the record,
\* all of which are allocated, and leaves every pointer null, every count 0
\* and every flag false; on a record already released it frees nothing and
\* changes nothing; no delete[] ever hits an array that is not allocated; on
\* a null record pointer it changes nothing
C9_Release ==
    /\ [](~badFree)
    /\ [][\A t \in Threads :
             /\ MP_ReleaseResults(t, NULL) => UNCHANGED vars
             /\ \A r \in Records :
                  MP_ReleaseResults(t, r) =>
                      /\ Arrays(rec[r]) \subseteq heap
                      /\ heap' = heap \ Arrays(rec[r])
                      /\ rec'[r] = ZeroResults
                      /\ held[r] \in {"empty", "rereleased"}
                            => (heap' = heap /\ rec' = rec)
                      /\ UNCHANGED <<live, frame_count_, input_video, out,
                                     graph, g_last_error, last>>]_vars

\* C9 witness: the record of a processed frame was released a second time
C9_Witness ==
    \E r \in Records :
        /\ held[r] = "rereleased"
        /\ last.op = "MP_Process" /\ last.ret = 1
        /\ rec[r] = ZeroResults
        /\ heap = {}

\* C10 (as claimed): with a caller that releases once per successful
\* MP_Process and never otherwise, every allocated array is pointed to by
\* exactly one slot of one record, none is freed twice, and none is
\* allocated once no record awaits its release
C10_NoLeak ==
    /\ ~badFree
    /\ \A p \in heap :
          Cardinality({rc \in Records \X Channel :
                          rec[rc[1]].landmarks[rc[2]] = p}) = 1
    /\ (\A r \in Records : held[r] # "ok") => heap = {}

\* a step that is an MP_Create call by thread t
CreateCall(t) ==
    \E configOk \in BOOLEAN, h \in Handles, stage \in CtorStages :
        MP_Create(t, configOk, h, stage)

\* C11: right after MP_Create or MP_Process returns on a thread, the code
\* MP_GetLastError gives that thread is 0 exactly when the call succeeded
\* (non-null handle / true); the failure paths leave 10 (null config),
\* 11 (construction), 20 (null handle), 1 (null pixels or results),
\* 2 (rejected packet), 3 (caught exception); the record has no error field
C11_StatusAgrees ==
    [][\A t \in Threads :
          /\ (CreateCall(t) \/ \E a \in ProcessArgs : Call(t, a)) =>
                /\ last'.t = t
                /\ last'.ret # 0 <=> MP_GetLastError(t, NULL)' = 0
                /\ \A r \in Records : DOMAIN rec'[r] = DOMAIN ZeroResults
          /\ \A h \in Handles, stage \in CtorStages :
                /\ MP_Create(t, FALSE, h, stage) => g_last_error'[t] = ErrConfigNull
                /\ (stage # "none" /\ MP_Create(t, TRUE, h, stage))
                      => g_last_error'[t] = ErrCreation
          /\ \A a \in ProcessArgs :
                Call(t, a) =>
                   /\ a.handle = NULL => g_last_error'[t] = ErrInvalidHandle
                   /\ (a.handle # NULL /\ ~PassesValidation(a))
                         => g_last_error'[t] = ErrInvalidArguments
                   /\ Rejected(a) => g_last_error'[t] = ErrAddPacket
                   /\ (PassesValidation(a) /\ ~Rejected(a) /\ last'.ret = 0)
                         => g_last_error'[t] = ErrProcessing]_vars

\* C11 witness: a call that failed on a caught exception after it had filled
\* a channel
C11_Witness ==
    \E r \in Records, c \in Channel :
        /\ last.op = "MP_Process" /\ last.ret = 0
        /\ g_last_error[MainThread] = ErrProcessing
        /\ rec[r].landmarks[c] # NULL

\* C12 (as claimed): after every successful operation on a thread,
\* MP_ReleaseResults and MP_Destroy included, MP_GetLastError gives that
\* thread code 0
C12_ClearedBySuccess ==
    [][\A t \in Threads :
          /\ ((CreateCall(t) \/ \E a \in ProcessArgs : Call(t, a)) /\ last'.ret # 0)
                => MP_GetLastError(t, NULL)' = 0
          /\ (\E r \in Records : MP_ReleaseResults(t, r))
                => MP_GetLastError(t, NULL)' = 0
          /\ (\E h \in Handles, closeOk \in BOOLEAN : MP_Destroy(t, h, closeOk))
                => MP_GetLastError(t, NULL)' = 0]_vars

\* a step that is an MP_Process call by thread t, on any instance or none
ProcessCall(t) ==
    \E h \in Handles : \E a \in ArgsOn(h) : Call(t, a)

\* C13: the error record belongs to the calling thread, not to the instance:
\* a call by one thread never changes the code another thread reads; a
\* thread's code changes only in that thread's own MP_Create / MP_Process
\* calls, whichever instance they target, and then shows that call's outcome;
\* MP_GetLastError gives the same answer for every handle and for none
C13_PerThread ==
    /\ [](last.op # "none" => (g_last_error[last.t] = 0 <=> last.ret # 0))
    /\ [][\A t \in Threads :
             /\ (CreateCall(t) \/ ProcessCall(t)) =>
                   /\ last'.t = t
                   /\ g_last_error'[t] = 0 <=> last'.ret # 0
                   /\ \A u \in Threads \ {t} : g_last_error'[u] = g_last_error[u]
             /\ ~(CreateCall(t) \/ ProcessCall(t))
                   => g_last_error'[t] = g_last_error[t]
             /\ \A h \in Handles \cup {NULL} :
                   MP_GetLastError(t, h)' = g_last_error'[t]]_vars

\* C13 witness: both instances have processed frames; the thread that called
\* last was rejected by the engine while the other thread still reads the
\* code of its own earlier invalid call
C13_Witness ==
    /\ live = Handles
    /\ \A h \in Handles : frame_count_[h] > 0
    /\ last.t = "t1" /\ last.ret = 0
    /\ g_last_error["t1"] = ErrAddPacket
    /\ g_last_error["t2"] = ErrInvalidArguments

\* C14 (as claimed): a failed MP_Create returns a null handle, leaves the set
\* of live processors and every graph as they were and records a code other
\* than 0; and what a caller observes after a failure to parse the graph
\* configuration (ConfigParseError) differs from what it observes after a
\* failure of Initialize or StartRun (GraphInitError): no step is the outcome
\* of both
C14_CreateFailures ==
    [][\A t \in Threads, h \in Handles :
          /\ \A configOk \in BOOLEAN, stage \in CtorStages :
                (MP_Create(t, configOk, h, stage) /\ (~configOk \/ stage # "none"))
                   => /\ last'.ret = NULL
                      /\ live' = live /\ graph' = graph
                      /\ frame_count_' = frame_count_ /\ out' = out
                      /\ g_last_error'[t] # 0
          /\ MP_Create(t, TRUE, h, "parse")
                => /\ ~MP_Create(t, TRUE, h, "init")
                   /\ ~MP_Create(t, TRUE, h, "start")]_vars

\* C15 (as claimed): every channel a successful MP_Process fills was taken
\* from a packet the graph computed from the frame this very call submitted
\* (the packet's timestamp is the timestamp the call assigned)
C15_FrameAttribution ==
    [][\A t \in Threads, a \in ProcessArgs :
          (Call(t, a) /\ last'.ret = 1) =>
              \A c \in Channel :
                  (out[a.handle][c] # <<>> /\ rec'[a.r].landmarks[c] # NULL)
                     => Head(out[a.handle][c]).ts = frame_count_[a.handle]]_vars

\* C16: the timestamp_ms a successful MP_Process reports is the counter value
\* the call assigned to its frame divided by 1000, rounded down (frame i of
\* the instance, counted from 0, reports floor(i / 1000)); a call whose packet
\* the engine rejected reports timestamp_ms = 0
C16_TimestampMs ==
    [][\A t \in Threads, a \in ProcessArgs :
          Call(t, a) =>
             /\ last'.ret = 1 =>
                   /\ rec'[a.r].timestamp_ms * 1000 <= frame_count_[a.handle]
                   /\ frame_count_[a.handle] < (rec'[a.r].timestamp_ms + 1) * 1000
             /\ Rejected(a) => rec'[a.r].timestamp_ms = 0]_vars

\* C16 witness: frame 1000 succeeded and reports 1 ms
C16_Witness ==
    \E r \in Records :
        /\ held[r] = "ok"
        /\ frame_count_[MainHandle] = 1001
        /\ rec[r].timestamp_ms = 1

\* C17: MP_Destroy on a live handle closes the graph's inputs first and waits
\* for the graph to drain only afterwards, and only when the close succeeded
\* (when it failed the wait is skipped and the call is over); no step of
\* MP_Destroy touches an error record; MP_Destroy(NULL) changes nothing; and
\* given that the graph drains once its inputs are closed, an MP_Destroy that
\* is waiting eventually returns
C17_DestroyOrder ==
    /\ [][\A h \in Handles :
             /\ graph'[h] = "closed" => graph[h] \in {"running", "closed"}
             /\ graph'[h] = "done" => graph[h] \in {"closed", "done"}
             /\ graph'[h] = "drained" => graph[h] \in {"done", "drained"}
             /\ graph'[h] = "abandoned" => graph[h] \in {"running", "abandoned"}
             /\ (h \in live /\ h \notin live') => graph'[h] \in {"drained", "abandoned"}]_vars
    /\ [][\A t \in Threads, h \in Handles :
             /\ DestroyClose(t, h, FALSE) => (graph'[h] = "abandoned" /\ h \notin live')
             /\ DestroyClose(t, h, TRUE) => (graph'[h] = "closed" /\ h \in live')
             /\ (DestroyClose(t, h, FALSE) \/ DestroyClose(t, h, TRUE)
                 \/ DestroyReturn(t, h))
                   => (g_last_error' = g_last_error /\ last' = last)
             /\ MP_Destroy(t, NULL, TRUE) => UNCHANGED vars]_vars
    /\ \A h \in Handles : (graph[h] = "closed") ~> (graph[h] = "drained")

\* C17 witness: the graph of an instance that processed frames has drained
\* while MP_Destroy waits, and the code of an earlier failure is still on
\* record
C17_Witness ==
    /\ graph[MainHandle] = "done"
    /\ MainHandle \in live
    /\ frame_count_[MainHandle] > 0
    /\ g_last_error[MainThread] # 0

\* the order in which FetchResults polls the streams
PollOrder == <<"face", "left_hand", "right_hand", "pose", "pose_world">>

\* C18: an exception raised at any step of Process is caught: the call
\* returns false with code 3. Raised before the packet is sent, it leaves the
\* record cleared and nothing polled. Raised at the k-th stream of
\* FetchResults, it leaves every stream polled before it as a completed poll
\* leaves it (slot filled from the head packet, or cleared when none was
\* pending), and every stream after it untouched: slot null with count 0, its
\* packets still queued
C18_FaultAbsorbed ==
    [][\A t \in Threads, a \in ProcessArgs :
          (last'.ret = 0 /\ PassesValidation(a) /\ ~Rejected(a) /\ Call(t, a)) =>
             /\ last'.op = "MP_Process"
             /\ g_last_error'[t] = ErrProcessing
             /\ a.fault[1] \in {"wrap", "packet"} =>
                   (rec'[a.r] = ZeroResults /\ out' = out /\ heap' = heap)
             /\ a.fault[1] \notin {"wrap", "packet"} =>
                   \E k \in 1..Len(PollOrder) :
                      /\ \A i \in 1..(k - 1) :
                            LET c == PollOrder[i]
                            IN IF out[a.handle][c] = <<>>
                               THEN /\ rec'[a.r].landmarks[c] = NULL
                                    /\ rec'[a.r].count[c] = 0
                                    /\ out'[a.handle][c] = <<>>
                               ELSE /\ rec'[a.r].count[c] = Head(out[a.handle][c]).n
                                    /\ rec'[a.r].landmarks[c] # NULL
                                         <=> Head(out[a.handle][c]).n >= 1
                                    /\ rec'[a.r].landmarks[c] # NULL
                                         => rec'[a.r].landmarks[c] \in heap'
                                    /\ out'[a.handle][c] = Tail(out[a.handle][c])
                      /\ \A i \in (k + 1)..Len(PollOrder) :
                            LET c == PollOrder[i]
                            IN /\ rec'[a.r].landmarks[c] = NULL
                               /\ rec'[a.r].count[c] = 0
                               /\ out'[a.handle][c] = out[a.handle][c]]_vars

\* C18 witness: the face slot is filled, the exception came at a later
\* stream, and the world-pose packet is still queued
C18_Witness ==
    \E r \in Records :
        /\ last.op = "MP_Process" /\ last.ret = 0
        /\ g_last_error[MainThread] = ErrProcessing
        /\ held[r] = "fail"
        /\ rec[r].landmarks["face"] # NULL
        /\ rec[r].count["pose_world"] = 0
        /\ out[MainHandle]["pose_world"] # <<>>

\* C19: MP_Process never waits for the graph: on a live instance the call can
\* be completed whatever the output queues hold; with the packet accepted and
\* no exception (the heap not being exhausted either) it returns true, also
\* when no stream holds a packet; and a
\* call that returns true has polled each of the five streams exactly once
\* (a queue that held packets has lost its head packet and nothing else, an
\* empty one is still empty)
C19_NeverWaits ==
    /\ [](\A a \in ProcessArgs :
             (Accepted(a) /\ a.fault[1] = "none" /\ a.handle \in live)
                => ENABLED Call(MainThread, a))
    /\ [][\A t \in Threads, a \in ProcessArgs :
             /\ (Accepted(a) /\ a.fault[1] = "none" /\ Call(t, a)) =>
                   \/ last'.ret = 1
                   \/ (heap' = Addr /\ g_last_error'[t] = ErrProcessing)
             /\ (last'.ret = 1 /\ Call(t, a)) =>
                   \A c \in Channel :
                      out'[a.handle][c] =
                         IF out[a.handle][c] = <<>> THEN <<>>
                         ELSE Tail(out[a.handle][c])]_vars

\* C19 witness: every frame the caller submitted returned true although the
\* graph never emitted a packet
C19_Witness ==
    \E r \in Records :
        /\ held[r] = "ok"
        /\ last.op = "MP_Process" /\ last.ret = 1
        /\ frame_count_[MainHandle] = MaxFrames
        /\ input_video[MainHandle] = MaxFrames - 1
        /\ \A c \in Channel : rec[r].landmarks[c] = NULL /\ out[MainHandle][c] = <<>>
        /\ heap = {}

\* C20: one MP_Process call takes at most one packet off each output queue,
\* always the head (the oldest: the timestamps in a queue increase), and that
\* packet is the one its slot is filled from; a slot is filled only from a
\* packet that leaves the queue with it, so no packet reaches two records;
\* the queues of other instances, and all queues in a call rejected for a
\* null argument, stay as they are; MP_ReleaseResults takes no packet
C20_PacketConsumption ==
    /\ [](\A h \in Handles, c \in Channel :
             \A i, j \in DOMAIN out[h][c] : i < j => out[h][c][i].ts < out[h][c][j].ts)
    /\ [][\A t \in Threads :
             /\ \A a \in ProcessArgs :
                  Call(t, a) =>
                     IF ~PassesValidation(a) THEN out' = out
                     ELSE /\ \A g \in Handles \ {a.handle} : out'[g] = out[g]
                          /\ \A c \in Channel :
                               \/ /\ out'[a.handle][c] = out[a.handle][c]
                                  /\ rec'[a.r].landmarks[c] = NULL
                               \/ /\ out[a.handle][c] # <<>>
                                  /\ out'[a.handle][c] = Tail(out[a.handle][c])
                                  /\ rec'[a.r].count[c] = Head(out[a.handle][c]).n
             /\ \A r \in Records \cup {NULL} :
                  MP_ReleaseResults(t, r) => out' = out]_vars

\* C20 witness: frame 2 succeeded while the pose queue held the packets of
\* frames 0 and 1; the record got the older one and the newer one is still
\* queued
C20_Witness ==
    \E r \in Records :
        /\ held[r] = "ok"
        /\ input_video[MainHandle] = 2
        /\ rec[r].landmarks["pose"] # NULL
        /\ Len(out[MainHandle]["pose"]) = 1
        /\ out[MainHandle]["pose"][1].ts = 1

\* thread t is the only one that has called instance stamp[t].h
DrivesAlone(t) ==
    /\ stamp[t].h # NULL
    /\ \A u \in Threads \ {t} : stamp[u].h # stamp[t].h

\* C21: frame_count_++ is not synchronized. With one instance per thread the
\* timestamps an instance assigns are pairwise distinct and no increment is
\* lost (the counter is the number of frames stamped), and no step of a call
\* on one instance changes the counter of another instance. (That two threads
\* on the same instance can be given the same timestamp, with an increment
\* lost, is the reachable state C21_Witness.)
C21_UnsynchronizedCounter ==
    /\ [](\A t \in Threads :
            DrivesAlone(t) =>
               /\ \A i, j \in DOMAIN stamp[t].ts :
                     i # j => stamp[t].ts[i] # stamp[t].ts[j]
               /\ frame_count_[stamp[t].h]
                     = Len(stamp[t].ts) - (IF stamp[t].pc = "loaded" THEN 1 ELSE 0))
    /\ [][\A t \in Threads :
             /\ \A h \in Handles, r \in Records :
                   ProcessLoad(t, h, r) => frame_count_' = frame_count_
             /\ \A accept \in BOOLEAN :
                   ProcessStore(t, accept, <<"none", "-">>) =>
                      \A g \in Handles \ {stamp[t].h} :
                          frame_count_'[g] = frame_count_[g]]_vars

\* C21 witness: both threads have finished a frame on the same instance, the
\* two frames were given the same timestamp, and the counter shows fewer
\* frames than were stamped
C21_Witness ==
    /\ stamp["t1"].h # NULL
    /\ stamp["t1"].h = stamp["t2"].h
    /\ stamp["t1"].pc = "out" /\ stamp["t2"].pc = "out"
    /\ \E i \in DOMAIN stamp["t1"].ts, j \in DOMAIN stamp["t2"].ts :
          stamp["t1"].ts[i] = stamp["t2"].ts[j]
    /\ frame_count_[stamp["t1"].h] < Len(stamp["t1"].ts) + Len(stamp["t2"].ts)

====
